---------------------------- MODULE Spec2Model ----------------------------
(* Model of litellm/fine_tuning/main.py: the blocking entry point          *)
(* create_fine_tuning_job and the non-blocking acreate_fine_tuning_job,    *)
(* which runs the blocking one on the default executor inside a copy of    *)
(* the caller's context and awaits a coroutine the backend may return.     *)
EXTENDS Integers, Sequences, FiniteSets, TLC

\* ------------------------------------------------------------- bounds
\* max_retries values supplied by callers range over 0..MaxRetries
MaxRetries == 1
\* small scalar durations range over 0..MaxDuration (42 and 120 are added)
MaxDuration == 1

\* ---------------------------------------------------- program constants
\* the 600 of lines 130, 139 and 144
DefaultTimeout == 600

\* the two callers of the model
Calls == {1, 2}

\* ------------------------------------------------------- Python values
None == [t |-> "None"]
Unbound == [t |-> "unbound"]
PyInt(n) == [t |-> "int", n |-> n]
PyFloat(n) == [t |-> "float", n |-> n]
PyStr(s) == [t |-> "str", s |-> s]
PyBool(b) == [t |-> "bool", b |-> b]
\* httpx.Timeout(connect=, read=, write=, pool=)
Timeout(connect, read, write, pool) ==
    [t |-> "Timeout", connect |-> connect, read |-> read, write |-> write, pool |-> pool]

IsNumber(v) == v.t \in {"int", "float"}
IsTimeoutObject(v) == v.t = "Timeout"

\* the truth value Python's `or` tests
Truthy(v) ==
    CASE v.t = "None" -> FALSE
      [] v.t = "str" -> v.s # ""
      [] v.t \in {"int", "float"} -> v.n # 0
      [] v.t = "bool" -> v.b
      [] OTHER -> TRUE

\* a or b
Or(a, b) == IF Truthy(a) THEN a ELSE b

\* float(v): a float for a number, ValueError/TypeError for anything else
ToFloat(v) ==
    IF IsNumber(v) THEN [kind |-> "ok", value |-> PyFloat(v.n)]
    ELSE [kind |-> "raise", value |-> [t |-> "TypeError"]]

\* dict operations on the keyword bag
Get(d, k, dflt) == IF k \in DOMAIN d THEN d[k] ELSE dflt
Put(d, k, v) == [x \in DOMAIN d \cup {k} |-> IF x = k THEN v ELSE d[x]]
Pop(d, k) == [x \in DOMAIN d \ {k} |-> d[x]]

AsyncKey == "acreate_fine_tuning_job"

\* -------------------------------------------------------------- state
VARIABLES
    litellm,         \* the process-wide default object litellm.*
    environ,         \* os.environ
    supports_httpx_timeout,  \* supports_httpx_timeout("openai")
    active,          \* the callers that make a call
    entry,           \* entry[c]: the entry point caller c uses
    args,            \* args[c]: custom_llm_provider, kwargs, the job fields
    ctxvar,          \* ctxvar[c]: the marker in caller c's own context
    pc,              \* pc[c]: where call c stands
    bridge,          \* bridge[c]: locals of acreate_fine_tuning_job
    frame,           \* frame[c]: locals of create_fine_tuning_job
    backend_calls,   \* backend_calls[c]: what the backend was invoked with
    outcome          \* outcome[c]: what reached the caller

globals == <<litellm, environ, supports_httpx_timeout>>
inputs == <<active, entry, args>>
vars == <<litellm, environ, supports_httpx_timeout, active, entry, args,
          ctxvar, pc, bridge, frame, backend_calls, outcome>>

Sync == "create_fine_tuning_job"
Async == "acreate_fine_tuning_job"

Markers == {"m1", "m2"}
NoMarker == "unset"

\* ------------------------------------------------ collaborators
\* GenericLiteLLMParams(**kwargs): the recognised options, None when not given
GenericLiteLLMParams(kwargs) ==
    [api_base |-> Get(kwargs, "api_base", None),
     api_key |-> Get(kwargs, "api_key", None),
     organization |-> Get(kwargs, "organization", None),
     timeout |-> Get(kwargs, "timeout", None),
     max_retries |-> Get(kwargs, "max_retries", None)]

\* FineTuningJobCreate(model=..., training_file=..., ...)
FineTuningJobCreate(fields) == [t |-> "FineTuningJobCreate", fields |-> fields]

\* the Job the backend yields for a request
FineTuningJob(data) == [t |-> "FineTuningJob", of |-> data.fields]

BackendError == [t |-> "APIConnectionError"]

Coroutine(kind, value) == [t |-> "coroutine", kind |-> kind, value |-> value]

\* what OpenAIFineTuningAPI.create_fine_tuning_job may do with a request: return
\* the Job or raise; asked for the async style it may also return a coroutine,
\* which yields the Job or raises when awaited
BackendBehaviours(data, is_async) ==
    {[kind |-> "return", value |-> FineTuningJob(data)],
     [kind |-> "raise", value |-> BackendError]}
    \cup (IF is_async
          THEN {[kind |-> "return", value |-> Coroutine("return", FineTuningJob(data))],
                [kind |-> "return", value |-> Coroutine("raise", BackendError)]}
          ELSE {})

\* litellm.exceptions.BadRequestError(..., llm_provider=custom_llm_provider,
\* response=httpx.Response(status_code=400, ...))
BadRequestError(provider) ==
    [t |-> "BadRequestError", status_code |-> 400, llm_provider |-> provider]

\* ------------------------------------- create_fine_tuning_job, by line
AnyProvider(custom_llm_provider) == TRUE
\* line 106
IsSupportedProvider(custom_llm_provider) == custom_llm_provider = "openai"

DefaultApiBase == PyStr("https://api.openai.com/v1")

ResolveApiBaseDefaultFirst(optional_params, lib, env) ==
    Or(Or(Or(lib.api_base, optional_params.api_base), env.OPENAI_API_BASE), DefaultApiBase)
\* lines 109-114
ResolveApiBase(optional_params, lib, env) ==
    Or(Or(Or(optional_params.api_base, lib.api_base), env.OPENAI_API_BASE), DefaultApiBase)

\* lines 115-120
ResolveOrganization(optional_params, lib, env) ==
    Or(Or(Or(optional_params.organization, lib.organization), env.OPENAI_ORGANIZATION), None)

\* lines 122-127
ResolveApiKey(optional_params, lib, env) ==
    Or(Or(Or(optional_params.api_key, lib.api_key), lib.openai_key), env.OPENAI_API_KEY)

InitialTimeoutNoAlias(optional_params, kwargs) ==
    Or(optional_params.timeout, PyInt(DefaultTimeout))
\* lines 129-131
InitialTimeout(optional_params, kwargs) ==
    Or(Or(optional_params.timeout, Get(kwargs, "request_timeout", PyInt(DefaultTimeout))),
       PyInt(DefaultTimeout))

CollapseToConnect(timeout) == Or(timeout.connect, PyInt(DefaultTimeout))
\* line 139
CollapseToRead(timeout) == Or(timeout.read, PyInt(DefaultTimeout))

NormalizeTimeoutNoDefault(timeout, supported) ==
    IF timeout # None /\ IsTimeoutObject(timeout) /\ supported = FALSE
    THEN [kind |-> "ok", value |-> timeout.read]
    ELSE IF timeout # None /\ ~IsTimeoutObject(timeout)
    THEN ToFloat(timeout)
    ELSE [kind |-> "ok", value |-> timeout]
\* lines 134-144
NormalizeTimeout(timeout, supported) ==
    IF timeout # None /\ IsTimeoutObject(timeout) /\ supported = FALSE
    THEN [kind |-> "ok", value |-> CollapseToRead(timeout)]
    ELSE IF timeout # None /\ ~IsTimeoutObject(timeout)
    THEN ToFloat(timeout)
    ELSE IF timeout = None
    THEN [kind |-> "ok", value |-> PyFloat(DefaultTimeout)]
    ELSE [kind |-> "ok", value |-> timeout]

IsAsyncFlagTruthy(kwargs) == Truthy(Get(kwargs, AsyncKey, PyBool(FALSE)))
\* line 146: kwargs.pop("acreate_fine_tuning_job", False) is True
IsAsyncFlag(kwargs) == Get(kwargs, AsyncKey, PyBool(FALSE)) = PyBool(TRUE)

RetryOnRaise(behaviour) == IF behaviour.kind = "raise" THEN "L158" ELSE "L180"
\* lines 158-182: the response is returned, an exception goes to the handler
AfterBackend(behaviour) == IF behaviour.kind = "raise" THEN "L181" ELSE "L180"

Swallowed(e) == [kind |-> "return", value |-> None]
\* lines 81-82 and 181-182: raise e
Reraised(e) == [kind |-> "raise", value |-> e]

ThreadContext(c) == NoMarker
\* lines 73-75: ctx.run(func) runs the blocking call in the captured copy;
\* a direct call runs in the caller's own context
RunContext(c) == IF entry[c] = Async THEN bridge[c].ctx ELSE ctxvar[c]

NotAwaited(v) == [next |-> "done", out |-> [kind |-> "return", value |-> v]]
\* lines 76-80: a coroutine is awaited, anything else is the response
Unwrap(v) ==
    IF v.t = "coroutine"
    THEN [next |-> "L77", out |-> [kind |-> "pending", value |-> None]]
    ELSE [next |-> "done", out |-> [kind |-> "return", value |-> v]]

\* ----------------------------------------------------------- initial
NoFrame ==
    [kwargs |-> <<>>, optional_params |-> Unbound, api_base |-> Unbound,
     organization |-> Unbound, api_key |-> Unbound, timeout |-> Unbound,
     is_async |-> Unbound, create_fine_tuning_job_data |-> Unbound,
     response |-> Unbound, exc |-> Unbound]
NoBridge == [kwargs |-> <<>>, ctx |-> NoMarker, init_response |-> Unbound]
Pending == [kind |-> "pending", value |-> None]

JobFields == [model |-> "gpt-3.5-turbo", training_file |-> "file-abc"]

InitLocals ==
    /\ ctxvar = [c \in Calls |-> NoMarker]
    /\ pc = [c \in Calls |-> "idle"]
    /\ bridge = [c \in Calls |-> NoBridge]
    /\ frame = [c \in Calls |-> NoFrame]
    /\ backend_calls = [c \in Calls |-> <<>>]
    /\ outcome = [c \in Calls |-> Pending]


\* ------------------------------------------------------------ actions
\* the caller sets the call-local marker in its own context before calling
SetMarker(c, m) ==
    /\ c \in active
    /\ pc[c] = "idle"
    /\ ctxvar[c] # m
    /\ ctxvar' = [ctxvar EXCEPT ![c] = m]
    /\ UNCHANGED <<globals, inputs, pc, bridge, frame, backend_calls, outcome>>

\* a direct call of create_fine_tuning_job(..., **kwargs)
CallSync(c) ==
    /\ c \in active
    /\ pc[c] = "idle"
    /\ entry[c] = Sync
    /\ frame' = [frame EXCEPT ![c].kwargs = args[c].kwargs]
    /\ pc' = [pc EXCEPT ![c] = "L105"]
    /\ UNCHANGED <<globals, inputs, ctxvar, bridge, backend_calls, outcome>>

\* lines 53-75: acreate_fine_tuning_job sets the internal key, captures the
\* context and hands partial(ctx.run, func) to the executor
CallAsync(c) ==
    /\ c \in active
    /\ pc[c] = "idle"
    /\ entry[c] = Async
    /\ bridge' = [bridge EXCEPT ![c] =
                    [kwargs |-> Put(args[c].kwargs, AsyncKey, PyBool(TRUE)),
                     ctx |-> ctxvar[c],
                     init_response |-> Unbound]]
    /\ pc' = [pc EXCEPT ![c] = "L75"]
    /\ UNCHANGED <<globals, inputs, ctxvar, frame, backend_calls, outcome>>

\* a worker of the executor starts create_fine_tuning_job(..., **kwargs)
ExecutorRun(c) ==
    /\ pc[c] = "L75"
    /\ frame' = [frame EXCEPT ![c].kwargs = bridge[c].kwargs]
    /\ pc' = [pc EXCEPT ![c] = "L105"]
    /\ UNCHANGED <<globals, inputs, ctxvar, bridge, backend_calls, outcome>>

\* line 105
ParseParams(c) ==
    /\ pc[c] = "L105"
    /\ frame' = [frame EXCEPT ![c].optional_params = GenericLiteLLMParams(frame[c].kwargs)]
    /\ pc' = [pc EXCEPT ![c] = "L106"]
    /\ UNCHANGED <<globals, inputs, ctxvar, bridge, backend_calls, outcome>>

\* line 106, the provider is "openai"
SelectProvider(c) ==
    /\ pc[c] = "L106"
    /\ IsSupportedProvider(args[c].custom_llm_provider)
    /\ pc' = [pc EXCEPT ![c] = "L109"]
    /\ UNCHANGED <<globals, inputs, ctxvar, bridge, frame, backend_calls, outcome>>

\* lines 167-179, any other provider
RaiseUnsupported(c) ==
    /\ pc[c] = "L106"
    /\ ~IsSupportedProvider(args[c].custom_llm_provider)
    /\ frame' = [frame EXCEPT ![c].exc = BadRequestError(args[c].custom_llm_provider)]
    /\ pc' = [pc EXCEPT ![c] = "L181"]
    /\ UNCHANGED <<globals, inputs, ctxvar, bridge, backend_calls, outcome>>

\* lines 109-127
ResolveConfig(c) ==
    /\ pc[c] = "L109"
    /\ frame' = [frame EXCEPT
         ![c].api_base = ResolveApiBase(frame[c].optional_params, litellm, environ),
         ![c].organization = ResolveOrganization(frame[c].optional_params, litellm, environ),
         ![c].api_key = ResolveApiKey(frame[c].optional_params, litellm, environ)]
    /\ pc' = [pc EXCEPT ![c] = "L129"]
    /\ UNCHANGED <<globals, inputs, ctxvar, bridge, backend_calls, outcome>>

\* lines 129-144
TimeoutLogic(c) ==
    /\ pc[c] = "L129"
    /\ LET r == NormalizeTimeout(InitialTimeout(frame[c].optional_params, frame[c].kwargs),
                                 supports_httpx_timeout)
       IN IF r.kind = "ok"
          THEN /\ frame' = [frame EXCEPT ![c].timeout = r.value]
               /\ pc' = [pc EXCEPT ![c] = "L146"]
          ELSE /\ frame' = [frame EXCEPT ![c].exc = r.value]
               /\ pc' = [pc EXCEPT ![c] = "L181"]
    /\ UNCHANGED <<globals, inputs, ctxvar, bridge, backend_calls, outcome>>

\* lines 146-156
BuildRequest(c) ==
    /\ pc[c] = "L146"
    /\ frame' = [frame EXCEPT
         ![c].is_async = PyBool(IsAsyncFlag(frame[c].kwargs)),
         ![c].kwargs = Pop(frame[c].kwargs, AsyncKey),
         ![c].create_fine_tuning_job_data = FineTuningJobCreate(args[c].fields)]
    /\ pc' = [pc EXCEPT ![c] = "L158"]
    /\ UNCHANGED <<globals, inputs, ctxvar, bridge, backend_calls, outcome>>

\* lines 158-166: the backend is invoked, and returns or raises
InvokeBackend(c) ==
    /\ pc[c] = "L158"
    /\ \E b \in BackendBehaviours(frame[c].create_fine_tuning_job_data, frame[c].is_async.b) :
         /\ backend_calls' = [backend_calls EXCEPT ![c] = Append(@,
              [api_base |-> frame[c].api_base,
               api_key |-> frame[c].api_key,
               organization |-> frame[c].organization,
               create_fine_tuning_job_data |-> frame[c].create_fine_tuning_job_data,
               timeout |-> frame[c].timeout,
               max_retries |-> frame[c].optional_params.max_retries,
               is_async |-> frame[c].is_async,
               kwargs |-> frame[c].kwargs,
               marker |-> RunContext(c),
               behaviour |-> b])]
         /\ frame' = [frame EXCEPT
              ![c].response = IF b.kind = "return" THEN b.value ELSE @,
              ![c].exc = IF b.kind = "raise" THEN b.value ELSE @]
         /\ pc' = [pc EXCEPT ![c] = AfterBackend(b)]
    /\ UNCHANGED <<globals, inputs, ctxvar, bridge, outcome>>

\* line 180: the response goes to the caller, or into the executor's future
ReturnResponse(c) ==
    /\ pc[c] = "L180"
    /\ IF entry[c] = Sync
       THEN /\ outcome' = [outcome EXCEPT ![c] = [kind |-> "return", value |-> frame[c].response]]
            /\ pc' = [pc EXCEPT ![c] = "done"]
            /\ UNCHANGED bridge
       ELSE /\ bridge' = [bridge EXCEPT ![c].init_response =
                            [kind |-> "return", value |-> frame[c].response]]
            /\ pc' = [pc EXCEPT ![c] = "L75_done"]
            /\ UNCHANGED outcome
    /\ UNCHANGED <<globals, inputs, ctxvar, frame, backend_calls>>

\* lines 181-182: the exception goes to the caller, or into the executor's future
Reraise(c) ==
    /\ pc[c] = "L181"
    /\ IF entry[c] = Sync
       THEN /\ outcome' = [outcome EXCEPT ![c] = Reraised(frame[c].exc)]
            /\ pc' = [pc EXCEPT ![c] = "done"]
            /\ UNCHANGED bridge
       ELSE /\ bridge' = [bridge EXCEPT ![c].init_response = Reraised(frame[c].exc)]
            /\ pc' = [pc EXCEPT ![c] = "L75_done"]
            /\ UNCHANGED outcome
    /\ UNCHANGED <<globals, inputs, ctxvar, frame, backend_calls>>

\* lines 75-80: the future holds a value
AwaitReturned(c) ==
    /\ pc[c] = "L75_done"
    /\ bridge[c].init_response.kind = "return"
    /\ LET u == Unwrap(bridge[c].init_response.value)
       IN /\ pc' = [pc EXCEPT ![c] = u.next]
          /\ outcome' = [outcome EXCEPT ![c] = u.out]
    /\ UNCHANGED <<globals, inputs, ctxvar, bridge, frame, backend_calls>>

\* lines 75, 81-82: the future holds an exception
AwaitRaised(c) ==
    /\ pc[c] = "L75_done"
    /\ bridge[c].init_response.kind = "raise"
    /\ outcome' = [outcome EXCEPT ![c] = Reraised(bridge[c].init_response.value)]
    /\ pc' = [pc EXCEPT ![c] = "done"]
    /\ UNCHANGED <<globals, inputs, ctxvar, bridge, frame, backend_calls>>

\* lines 77-82: the awaited coroutine yields its result or raises
AwaitCoroutine(c) ==
    /\ pc[c] = "L77"
    /\ LET co == bridge[c].init_response.value
       IN outcome' = [outcome EXCEPT ![c] =
            IF co.kind = "return" THEN [kind |-> "return", value |-> co.value]
            ELSE Reraised(co.value)]
    /\ pc' = [pc EXCEPT ![c] = "done"]
    /\ UNCHANGED <<globals, inputs, ctxvar, bridge, frame, backend_calls>>

Next ==
    \E c \in Calls :
        \/ \E m \in Markers : SetMarker(c, m)
        \/ CallSync(c)
        \/ CallAsync(c)
        \/ ExecutorRun(c)
        \/ ParseParams(c)
        \/ SelectProvider(c)
        \/ RaiseUnsupported(c)
        \/ ResolveConfig(c)
        \/ TimeoutLogic(c)
        \/ BuildRequest(c)
        \/ InvokeBackend(c)
        \/ ReturnResponse(c)
        \/ Reraise(c)
        \/ AwaitReturned(c)
        \/ AwaitRaised(c)
        \/ AwaitCoroutine(c)

\* --------------------------------------------------- initial states
\* a keyword bag from a choice per key, Unbound meaning the key is not passed
Bag(choice) == [k \in {x \in DOMAIN choice : choice[x] # Unbound} |-> choice[k]]

Providers == {"openai", "not-a-real-provider"}
EntryPoints == {Sync, Async}
Durations == (0 .. MaxDuration) \cup {42, 120}
Scalars == {PyInt(n) : n \in Durations} \cup {PyFloat(n) : n \in {0, 42}}
Structured ==
    {Timeout(PyInt(5), r, PyInt(5), PyInt(5)) : r \in {None} \cup {PyInt(n) : n \in Durations}}
    \cup {Timeout(PyInt(7), r, PyInt(8), PyInt(9)) : r \in {None, PyFloat(0), PyInt(42)}}
RetryChoices == {Unbound} \cup {PyInt(n) : n \in 0 .. MaxRetries}

NoDefaults ==
    [api_base |-> None, organization |-> None, api_key |-> None, openai_key |-> None,
     request_timeout |-> None, num_retries |-> None]
NoEnviron == [OPENAI_API_BASE |-> None, OPENAI_ORGANIZATION |-> None, OPENAI_API_KEY |-> None]
IdleCall == [custom_llm_provider |-> "openai", kwargs |-> <<>>, fields |-> JobFields]

\* the layered configuration sources vary, one caller
LibraryDefaults ==
    {[api_base |-> a, organization |-> o, api_key |-> k, openai_key |-> ok,
      request_timeout |-> t.rt, num_retries |-> t.nr] :
        a \in {None, PyStr("litellm.api_base")},
        o \in {None, PyStr("litellm.organization")},
        k \in {None, PyStr("litellm.api_key")},
        ok \in {None, PyStr("litellm.openai_key")},
        t \in {[rt |-> None, nr |-> None], [rt |-> PyInt(77), nr |-> PyInt(5)]}}
Environments ==
    [OPENAI_API_BASE : {None, PyStr("env.OPENAI_API_BASE")},
     OPENAI_ORGANIZATION : {None, PyStr("env.OPENAI_ORGANIZATION")},
     OPENAI_API_KEY : {None, PyStr("env.OPENAI_API_KEY")}]
ResolveKwargs ==
    {Bag([api_base |-> a, api_key |-> k, organization |-> o, timeout |-> t, max_retries |-> m]) :
        a \in {Unbound, PyStr(""), PyStr("kw.api_base")},
        k \in {Unbound, PyStr("kw.api_key")},
        o \in {Unbound, PyStr("kw.organization")},
        t \in {Unbound, PyInt(30)},
        m \in RetryChoices}

InitResolve ==
    /\ litellm \in LibraryDefaults
    /\ environ \in Environments
    /\ supports_httpx_timeout = TRUE
    /\ active = {1}
    /\ \E e \in EntryPoints, p \in Providers, kw \in ResolveKwargs :
          /\ (e = Async \/ p # "openai") => kw = <<>>
          /\ entry = [c \in Calls |-> IF c = 1 THEN e ELSE Sync]
          /\ args = [c \in Calls |->
                IF c = 1 THEN [custom_llm_provider |-> p, kwargs |-> kw, fields |-> JobFields]
                ELSE IdleCall]
    /\ InitLocals

\* the timeout inputs and the provider's capability vary, one caller
TimeoutKwargs ==
    {Bag([timeout |-> t, request_timeout |-> rt]) :
        t \in {Unbound, None} \cup Scalars \cup Structured,
        rt \in {Unbound, None} \cup {PyInt(n) : n \in Durations}
               \cup {Timeout(PyInt(5), PyInt(42), PyInt(5), PyInt(5))}}

InitTimeout ==
    /\ litellm = NoDefaults
    /\ environ = [NoEnviron EXCEPT !.OPENAI_API_KEY = PyStr("env.OPENAI_API_KEY")]
    /\ supports_httpx_timeout \in BOOLEAN
    /\ active = {1}
    /\ \E e \in EntryPoints, p \in Providers, kw \in TimeoutKwargs :
          /\ p # "openai" => kw = <<>>
          /\ entry = [c \in Calls |-> IF c = 1 THEN e ELSE Sync]
          /\ args = [c \in Calls |->
                IF c = 1 THEN [custom_llm_provider |-> p, kwargs |-> kw, fields |-> JobFields]
                ELSE IdleCall]
    /\ InitLocals

\* two concurrent callers, each through either entry point
BridgeKwargs ==
    {Bag([acreate_fine_tuning_job |-> a, max_retries |-> m]) :
        a \in {Unbound, PyBool(TRUE), PyInt(1)},
        m \in {Unbound, PyInt(MaxRetries)}}

Init ==
    /\ litellm = NoDefaults
    /\ environ = [NoEnviron EXCEPT !.OPENAI_API_KEY = PyStr("env.OPENAI_API_KEY")]
    /\ supports_httpx_timeout = TRUE
    /\ active = Calls
    /\ entry \in [Calls -> EntryPoints]
    /\ args \in [Calls -> {[custom_llm_provider |-> p, kwargs |-> kw, fields |-> JobFields] :
                             p \in Providers, kw \in BridgeKwargs}]
    /\ InitLocals

Spec == Init /\ [][Next]_vars
SpecResolve == InitResolve /\ [][Next]_vars
SpecTimeout == InitTimeout /\ [][Next]_vars


\* ------------------------------------------------------------- claims
Passed(c) == backend_calls[c][1]
Invoked(c) == Len(backend_calls[c]) > 0
Override(c, k) == Get(args[c].kwargs, k, None)
Unsupported(c) == args[c].custom_llm_provider # "openai"

\* C2: a call whose provider is not "openai" never performs the config
\* resolution, never invokes the backend, and ends with BadRequestError,
\* status 400, carrying the provider id.
UnknownProviderRejected ==
    \A c \in Calls : Unsupported(c) =>
        /\ backend_calls[c] = <<>>
        /\ frame[c].api_base = Unbound
        /\ frame[c].api_key = Unbound
        /\ frame[c].organization = Unbound
        /\ frame[c].timeout = Unbound
        /\ pc[c] = "done" =>
              /\ outcome[c].kind = "raise"
              /\ outcome[c].value.t = "BadRequestError"
              /\ outcome[c].value.status_code = 400
              /\ outcome[c].value.llm_provider = args[c].custom_llm_provider

UnknownProviderWitness ==
    \E c \in Calls :
        /\ Unsupported(c)
        /\ entry[c] = Async
        /\ args[c].kwargs # <<>>
        /\ pc[c] = "done"
        /\ outcome[c].kind = "raise"

\* C9: the backend is invoked at most once per dispatch, whatever it does, and
\* the max_retries it receives is the call's own max_retries (None when absent).
NoLocalRetries ==
    \A c \in Calls :
        /\ Len(backend_calls[c]) <= 1
        /\ \A i \in 1 .. Len(backend_calls[c]) :
              backend_calls[c][i].max_retries = Override(c, "max_retries")

NoLocalRetriesWitness ==
    \E c \in Calls :
        /\ pc[c] = "done"
        /\ Invoked(c)
        /\ Passed(c).behaviour.kind = "raise"
        /\ Passed(c).max_retries = PyInt(MaxRetries)
        /\ outcome[c].kind = "raise"

\* C10: the backend gets _is_async = True in every call through
\* acreate_fine_tuning_job, and False in every direct call whose overrides do not
\* hold the internal key set to True; the internal key is gone from the overrides
\* when the backend is called and is no part of the payload.
AsyncFlagRouting ==
    \A c \in Calls : \A i \in 1 .. Len(backend_calls[c]) :
        LET b == backend_calls[c][i]
        IN /\ entry[c] = Async => b.is_async = PyBool(TRUE)
           /\ (entry[c] = Sync /\ Override(c, AsyncKey) # PyBool(TRUE))
                 => b.is_async = PyBool(FALSE)
           /\ AsyncKey \notin DOMAIN b.kwargs
           /\ AsyncKey \notin DOMAIN b.create_fine_tuning_job_data.fields

AsyncFlagRoutingWitness ==
    \E c, d \in Calls :
        /\ entry[c] = Sync /\ Override(c, AsyncKey) = PyInt(1)
        /\ Invoked(c) /\ Passed(c).is_async = PyBool(FALSE)
        /\ entry[d] = Async /\ Override(d, AsyncKey) = PyInt(1)
        /\ Invoked(d) /\ Passed(d).is_async = PyBool(TRUE)

\* C7: the marker the backend observes in a call through acreate_fine_tuning_job
\* is the marker of that caller's own context, whatever the other callers set.
ContextPropagated ==
    \A c \in Calls : entry[c] = Async =>
        \A i \in 1 .. Len(backend_calls[c]) : backend_calls[c][i].marker = ctxvar[c]

ContextPropagatedWitness ==
    \E c, d \in Calls :
        /\ c # d
        /\ entry[c] = Async /\ entry[d] = Async
        /\ ctxvar[c] = "m1" /\ ctxvar[d] = "m2"
        /\ Invoked(c) /\ Passed(c).marker = "m1"
        /\ Invoked(d) /\ Passed(d).marker = "m2"


IsJob(v) == v.t = "FineTuningJob"
\* the backend yielded the Job in every invocation of call c, at once or deferred
YieldsJob(c) ==
    \A i \in 1 .. Len(backend_calls[c]) :
        LET b == backend_calls[c][i].behaviour
        IN b.kind = "return" /\ (b.value.t = "coroutine" => b.value.kind = "return")

\* C4 as stated: for the same inputs and a backend yielding the Job, the awaited
\* acreate_fine_tuning_job and create_fine_tuning_job end with equal values, and
\* the awaited one is never a pending coroutine.
SyncAsyncEquivalentAnyInputs ==
    \A c, d \in Calls :
        (/\ entry[c] = Sync /\ entry[d] = Async
         /\ args[c] = args[d]
         /\ pc[c] = "done" /\ pc[d] = "done"
         /\ YieldsJob(c) /\ YieldsJob(d))
        => /\ outcome[d] = outcome[c]
           /\ outcome[d].value.t # "coroutine"

\* C4 amended: the equality holds for inputs whose overrides do not hold the
\* internal key acreate_fine_tuning_job set to True; a value returned by the
\* awaited acreate_fine_tuning_job is always the Job, never a coroutine.
SyncAsyncEquivalent ==
    /\ \A c, d \in Calls :
        (/\ entry[c] = Sync /\ entry[d] = Async
         /\ args[c] = args[d]
         /\ Override(c, AsyncKey) # PyBool(TRUE)
         /\ pc[c] = "done" /\ pc[d] = "done"
         /\ YieldsJob(c) /\ YieldsJob(d))
        => outcome[d] = outcome[c]
    /\ \A d \in Calls :
        (entry[d] = Async /\ pc[d] = "done" /\ outcome[d].kind = "return")
        => IsJob(outcome[d].value)

SyncAsyncEquivalentWitness ==
    \E c, d \in Calls :
        /\ entry[c] = Sync /\ entry[d] = Async
        /\ args[c] = args[d]
        /\ ~Unsupported(c)
        /\ Override(c, AsyncKey) = PyInt(1)
        /\ pc[c] = "done" /\ pc[d] = "done"
        /\ Passed(c).behaviour.value.t = "FineTuningJob"
        /\ Passed(d).behaviour.value.t = "coroutine"
        /\ outcome[d].kind = "return"
        /\ outcome[c] = outcome[d]

\* the error the backend raised in call c, at once or from its coroutine
BackendRaised(c, e) ==
    /\ Invoked(c)
    /\ LET b == Passed(c).behaviour
       IN \/ b.kind = "raise" /\ b.value = e
          \/ /\ entry[c] = Async
             /\ b.kind = "return" /\ b.value.t = "coroutine"
             /\ b.value.kind = "raise" /\ b.value.value = e

\* C8 as stated: every finished call, through either entry point, ended with
\* a concrete Job or with the error that was raised, and never with both.
ErrorsPropagateAnyCall ==
    \A c \in Calls : pc[c] = "done" =>
        /\ outcome[c].kind \in {"return", "raise"}
        /\ outcome[c].kind = "return" => IsJob(outcome[c].value)
        /\ \A e \in {BackendError} : BackendRaised(c, e) => outcome[c] = [kind |-> "raise", value |-> e]

\* C8 amended: nothing reaches the caller before the call ends; a finished call
\* ended with the error that was raised (the unsupported-provider error or the
\* backend's own, unchanged) or else with what the backend returned, which is
\* the complete Job except in a direct create_fine_tuning_job call whose
\* overrides hold acreate_fine_tuning_job = True, where it may be the backend's
\* coroutine, left unawaited.
ErrorsPropagate ==
    \A c \in Calls :
        /\ pc[c] # "done" => outcome[c].kind = "pending"
        /\ pc[c] = "done" =>
            /\ outcome[c].kind \in {"return", "raise"}
            /\ \A e \in {BackendError} :
                  BackendRaised(c, e) => outcome[c] = [kind |-> "raise", value |-> e]
            /\ outcome[c].kind = "raise" =>
                  \/ Unsupported(c) /\ outcome[c].value = BadRequestError(args[c].custom_llm_provider)
                  \/ BackendRaised(c, outcome[c].value)
            /\ outcome[c].kind = "return" =>
                  /\ Invoked(c)
                  /\ IF entry[c] = Sync
                     THEN outcome[c].value = Passed(c).behaviour.value
                     ELSE outcome[c].value = FineTuningJob(Passed(c).create_fine_tuning_job_data)
                  /\ ~IsJob(outcome[c].value) =>
                        entry[c] = Sync /\ Override(c, AsyncKey) = PyBool(TRUE)

ErrorsPropagateWitness ==
    \E c, d \in Calls :
        /\ entry[c] = Async /\ pc[c] = "done"
        /\ Invoked(c)
        /\ Passed(c).behaviour = [kind |-> "return", value |-> Coroutine("raise", BackendError)]
        /\ outcome[c] = [kind |-> "raise", value |-> BackendError]
        /\ entry[d] = Sync /\ pc[d] = "done"
        /\ Invoked(d)
        /\ Passed(d).behaviour.kind = "raise"
        /\ outcome[d] = [kind |-> "raise", value |-> BackendError]


\* the first non-empty value of a chain of sources
RECURSIVE FirstNonEmpty(_, _)
FirstNonEmpty(sources, fallback) ==
    IF sources = <<>> THEN fallback
    ELSE IF Truthy(Head(sources)) THEN Head(sources)
    ELSE FirstNonEmpty(Tail(sources), fallback)

\* C1 as stated: for each of api_base, api_key, organization, timeout and
\* max_retries the call-level value wins over the process-wide default, and the
\* process-wide default is the effective value when the call gives none.
PrecedenceAllFields ==
    \A c \in Calls : Invoked(c) =>
        LET b == Passed(c)
        IN /\ Truthy(Override(c, "api_base")) => b.api_base = Override(c, "api_base")
           /\ Truthy(Override(c, "api_key")) => b.api_key = Override(c, "api_key")
           /\ Truthy(Override(c, "organization")) => b.organization = Override(c, "organization")
           /\ Truthy(Override(c, "timeout")) => b.timeout.n = Override(c, "timeout").n
           /\ Truthy(Override(c, "max_retries")) => b.max_retries = Override(c, "max_retries")
           /\ (~Truthy(Override(c, "api_base")) /\ Truthy(litellm.api_base))
                 => b.api_base = litellm.api_base
           /\ (~Truthy(Override(c, "api_key")) /\ Truthy(litellm.api_key))
                 => b.api_key = litellm.api_key
           /\ (~Truthy(Override(c, "organization")) /\ Truthy(litellm.organization))
                 => b.organization = litellm.organization
           /\ (~Truthy(Override(c, "timeout")) /\ Truthy(litellm.request_timeout))
                 => b.timeout.n = litellm.request_timeout.n
           /\ (~Truthy(Override(c, "max_retries")) /\ Truthy(litellm.num_retries))
                 => b.max_retries = litellm.num_retries

\* C1 amended: api_base, api_key and organization are the first non-empty of the
\* call-level override, the process-wide default (for the key litellm.api_key,
\* then litellm.openai_key), the environment variable and the fallback (the
\* OpenAI endpoint for api_base, None otherwise). timeout and max_retries come
\* from the call alone: timeout is the call's non-empty timeout as a float and
\* 600.0 without one (no request_timeout here), max_retries is the call's
\* max_retries or None, whatever litellm.request_timeout and litellm.num_retries hold.
PrecedenceLaw ==
    \A c \in Calls : Invoked(c) =>
        LET b == Passed(c)
        IN /\ b.api_base = FirstNonEmpty(<<Override(c, "api_base"), litellm.api_base,
                                           environ.OPENAI_API_BASE>>, DefaultApiBase)
           /\ b.organization = FirstNonEmpty(<<Override(c, "organization"), litellm.organization,
                                               environ.OPENAI_ORGANIZATION>>, None)
           /\ b.api_key = FirstNonEmpty(<<Override(c, "api_key"), litellm.api_key,
                                          litellm.openai_key, environ.OPENAI_API_KEY>>, None)
           /\ "request_timeout" \notin DOMAIN args[c].kwargs =>
                 b.timeout = IF Truthy(Override(c, "timeout"))
                             THEN PyFloat(Override(c, "timeout").n)
                             ELSE PyFloat(DefaultTimeout)
           /\ b.max_retries = Override(c, "max_retries")

PrecedenceLawWitness ==
    \E c \in Calls :
        /\ Invoked(c)
        /\ Override(c, "api_base") = PyStr("")
        /\ "api_key" \notin DOMAIN args[c].kwargs
        /\ Override(c, "organization") = PyStr("kw.organization")
        /\ litellm.api_base # None /\ litellm.api_key # None /\ litellm.organization # None
        /\ litellm.request_timeout # None
        /\ environ.OPENAI_API_BASE # None /\ environ.OPENAI_API_KEY # None
        /\ Passed(c).api_base = litellm.api_base
        /\ Passed(c).api_key = litellm.api_key
        /\ Passed(c).organization = PyStr("kw.organization")
        /\ "timeout" \notin DOMAIN args[c].kwargs
        /\ Passed(c).timeout = PyFloat(DefaultTimeout)

\* the structured spec the timeout logic starts from, when it starts from one
StructuredInput(c) ==
    IF IsTimeoutObject(Override(c, "timeout")) THEN Override(c, "timeout")
    ELSE IF ~Truthy(Override(c, "timeout")) /\ IsTimeoutObject(Override(c, "request_timeout"))
    THEN Override(c, "request_timeout")
    ELSE None

TimeoutLogicRaised(c) == frame[c].exc # Unbound /\ frame[c].exc.t = "TypeError"

IsPositiveNumber(v) == IsNumber(v) /\ v.n > 0

CollapseToReadWhenPresent ==
    \A c \in Calls :
        (Invoked(c) /\ StructuredInput(c) # None /\ ~supports_httpx_timeout) =>
            /\ IsNumber(Passed(c).timeout)
            /\ Passed(c).timeout.n = IF StructuredInput(c).read # None
                                     THEN StructuredInput(c).read.n
                                     ELSE DefaultTimeout

\* C5 amended: the collapse yields the read component, as it is stored, when it
\* is present and not zero, and 600 when it is absent or zero; never the
\* connect, write or pool component.
StructuredCollapse ==
    \A c \in Calls :
        (Invoked(c) /\ StructuredInput(c) # None /\ ~supports_httpx_timeout) =>
            LET read == StructuredInput(c).read
            IN Passed(c).timeout = IF read # None /\ read.n # 0 THEN read
                                   ELSE PyInt(DefaultTimeout)

StructuredCollapseWitness ==
    \E c \in Calls :
        /\ Invoked(c)
        /\ ~supports_httpx_timeout
        /\ Override(c, "timeout") = Timeout(PyInt(5), PyInt(42), PyInt(5), PyInt(5))
        /\ IsNumber(Passed(c).timeout)
        /\ Passed(c).timeout.n = 42

\* C6 as stated: request_timeout = t, a number, with no timeout key gives the
\* backend the timeout float(t).
LegacyAliasAnyNumber ==
    \A c \in Calls :
        (/\ Invoked(c)
         /\ "timeout" \notin DOMAIN args[c].kwargs
         /\ IsNumber(Override(c, "request_timeout")))
        => Passed(c).timeout = PyFloat(Override(c, "request_timeout").n)

\* C6 amended: request_timeout = t, a number other than zero, with no timeout
\* key gives the backend the timeout float(t); request_timeout = 0 gives 600.0.
LegacyAlias ==
    \A c \in Calls :
        (/\ Invoked(c)
         /\ "timeout" \notin DOMAIN args[c].kwargs
         /\ IsNumber(Override(c, "request_timeout")))
        => Passed(c).timeout = IF Override(c, "request_timeout").n # 0
                               THEN PyFloat(Override(c, "request_timeout").n)
                               ELSE PyFloat(DefaultTimeout)

LegacyAliasWitness ==
    \E c \in Calls :
        /\ Invoked(c)
        /\ "timeout" \notin DOMAIN args[c].kwargs
        /\ Override(c, "request_timeout") = PyInt(120)
        /\ Passed(c).timeout = PyFloat(120)

=============================================================================
